---- MODULE Spec2Model ----
(***************************************************************************)
(* A model of the EPUB fixer (src/epub_fixer.py): the per-file repair      *)
(* pipeline EPUBFixer.fix_epub, the batch driver EPUBFixer.batch_fix, and  *)
(* the text rewriters _fix_style_attribute and _fix_css_content.           *)
(*                                                                         *)
(* Archive paths are sequences of path components, an archive is a         *)
(* sequence of entries, and the unpacked directory is a sequence of files  *)
(* in listing order.  Text is a sequence of one-character strings.         *)
(***************************************************************************)
EXTENDS Integers, Sequences, FiniteSets, TLC

VARIABLES
    fs,               \* the files outside the unpack directory: path -> file
    processed_files,  \* EPUBFixer.processed_files
    total_files,      \* EPUBFixer.total_files
    current_file,     \* EPUBFixer.current_file
    pc,               \* position inside fix_epub ("idle" when not running)
    input_path,       \* fix_epub's argument
    output_path,      \* fix_epub's argument, after the default of line 41
    temp_dir,         \* the files of the unpack directory, in listing order
    book,             \* the items epub.read_epub returned
    in_entries,       \* the entries zip_ref read from input_path
    retval,           \* what the last fix_epub call returned: "True", "False"
    exc,              \* the exception raised inside fix_epub ("none": none)
    escaped,          \* TRUE when an exception left fix_epub
    caller,           \* who called fix_epub: "none", "single" or "batch"
    input_paths,      \* batch_fix's argument
    output_dir,       \* batch_fix's argument
    bi,               \* batch_fix's loop position in input_paths
    success_count,    \* batch_fix's local
    failed_files,     \* batch_fix's local
    fix_calls,        \* the fix_epub calls of the current top-level call: a
                      \* log of [path, ret], ret "none" while the call runs
    batch_result,     \* what batch_fix returned (NoResult before)
    ops,              \* top-level calls made so far
    style,            \* the argument of _fix_style_attribute
    fixed_style,      \* its result
    css_text,         \* the text _fix_css_content decoded from its argument
    fixed_css,        \* the text of its result
    tpc,              \* the rewriter call: "off", "build", "done", "again"
    refixed_css,      \* _fix_css_content's result on its own result
    content,          \* the markup _fix_html_content is given, as tokens
    fixed_content,    \* its result
    refixed_content,  \* its result on its own result
    toc,              \* book.toc, the argument of _fix_toc_uids
    fixed_toc,        \* book.toc after _fix_toc_uids
    args,             \* cli.py: the parsed command line (NoArgs: no run)
    cpc,              \* cli.py: position inside main ("off": no run)
    exit_code,        \* cli.py: <<c>> after sys.exit(c), <<>> before
    progress,         \* what the last get_progress call returned (<<>>: none)
    selected_files,   \* gui.py: EPUBFixerGUI.selected_files
    dest_set,         \* gui.py: overwrite is ticked or an output directory set
    controls,         \* gui.py: the state of start_btn and the other buttons
    after_queue,      \* gui.py: the callbacks root.after(0, ...) has pending
    threads           \* gui.py: the worker threads started, by position

vars == <<fs, processed_files, total_files, current_file, pc, input_path,
          output_path, temp_dir, book, in_entries, retval, exc, escaped,
          caller, input_paths, output_dir, bi, success_count, failed_files,
          fix_calls, batch_result, ops, style, fixed_style, css_text,
          fixed_css, tpc, refixed_css, content, fixed_content,
          refixed_content, toc, fixed_toc, args, cpc, exit_code, progress,
          selected_files, dest_set, controls, after_queue, threads>>

batchvars == <<input_paths, output_dir, bi, success_count, failed_files,
               batch_result>>
againvars == <<refixed_css, content, fixed_content, refixed_content>>
tocvars == <<toc, fixed_toc>>
guivars == <<selected_files, dest_set, controls, after_queue, threads>>
\* what no step of fix_epub, batch_fix or main touches
textvars == <<style, fixed_style, css_text, fixed_css, tpc, againvars,
              tocvars, progress, guivars>>
\* what fix_epub's entry sets, and what no step of fix_epub touches
callvars == <<current_file, input_path, output_path>>
clivars == <<args, cpc, exit_code>>
outer == <<total_files, caller, batchvars, ops, textvars, clivars>>

(***************************************************************************)
(* Bounds of the model.                                                    *)
(***************************************************************************)
MaxOps == 2        \* top-level calls in one behaviour
MaxBatch == 3      \* longest input list handed to batch_fix
MaxFeatures == 1   \* deviations from the plain package layout, per package

\* Python's None, as a path and as a directory
None == [dir |-> "None", base |-> "None"]
NoDir == "None"

(***************************************************************************)
(* File contents.  A document or style sheet records whether its bytes are *)
(* valid UTF-8, how many times it went through its rewriter, and           *)
(* (document) how many override blocks its head holds.  The manifest       *)
(* records the spine's page-progression-direction, whether its bytes are   *)
(* the original ones or ElementTree's serialization, and the items it      *)
(* lists.                                                                  *)
(***************************************************************************)
\* the navigation structure: epub.Link objects (with a uid, None when
\* unset), epub.Section objects (no uid attribute), lists and tuples
UidNone == [v |-> "None"]
Uid(str) == [v |-> "str", s |-> str]
uuid4(n) == [v |-> "uuid4", n |-> n]
Link(uid) == [kind |-> "Link", uid |-> uid, items |-> <<>>]
Section == [kind |-> "Section", uid |-> UidNone, items |-> <<>>]
List(items) == [kind |-> "list", uid |-> UidNone, items |-> items]
Tuple(items) == [kind |-> "tuple", uid |-> UidNone, items |-> items]
\* the navigation structure of the packages: one link read with its
\* identifier, one without
PackageToc == List(<< Link(Uid("a")), Link(UidNone) >>)

MimeData == [k |-> "bin", id |-> "application/epub+zip"]
BinData(i) == [k |-> "bin", id |-> i]
DocData(u) == [k |-> "doc", utf8 |-> u, passes |-> 0, nstyle |-> 0]
CssData(u) == [k |-> "css", utf8 |-> u, passes |-> 0]
OpfData(d, s, m) ==
    [k |-> "opf", ppd |-> d, ser |-> s, manifest |-> m, toc |-> PackageToc]
ContainerData(p) == [k |-> "container", rootfile |-> p]
\* the text _get_fix_css returns, written as a file
FixCssData == [k |-> "fixcss"]

ITEM_STYLE == 2
ITEM_DOCUMENT == 9

(***************************************************************************)
(* Paths inside a package.                                                 *)
(***************************************************************************)
IsPrefix(p, q) == Len(p) <= Len(q) /\ SubSeq(q, 1, Len(p)) = p
Basename(p) == p[Len(p)]
Dirname(p) == SubSeq(p, 1, Len(p) - 1)

\* str.endswith('.opf') over the file names of the model
EndsWithOpf(f) == f \in {"content.opf", "backup.opf"}

\* the prefixes fix_epub and _fix_opf_direction search, in order
Prefixes == << <<"EPUB">>, <<"OEBPS">>, <<>> >>

\* the container roots packages of the model use
Roots == { <<"EPUB">>, <<"OEBPS">>, <<"OPS">>, <<>> }

Features == {"nomime", "nostyle", "fixcss", "nestedmime", "badutf8", "badcss",
             "twoopf", "et"}

Entry(n, d, c) == [name |-> n, data |-> d, comp |-> c]

Opt(cond, e) == IF cond THEN <<e>> ELSE <<>>

\* the manifest of a package: hrefs relative to the manifest's directory
Manifest(feats) ==
    << [file_name |-> <<"ch1.xhtml">>, type |-> ITEM_DOCUMENT] >>
    \o Opt("nostyle" \notin feats,
           [file_name |-> <<"style", "main.css">>, type |-> ITEM_STYLE])
    \o << [file_name |-> <<"img.png">>, type |-> 1] >>   \* an image item

\* a package archive as an EPUB writer lays it out; tag tells packages apart
Package(root, ppd, feats, tag) ==
    Opt("nomime" \notin feats, Entry(<<"mimetype">>, MimeData, "stored"))
    \o << Entry(<<"META-INF", "container.xml">>,
                ContainerData(root \o <<"content.opf">>), "deflated") >>
    \o Opt("nestedmime" \in feats,
           Entry(<<"META-INF", "mimetype">>, BinData("nested"), "deflated"))
    \o Opt("twoopf" \in feats,
           Entry(root \o <<"backup.opf">>,
                 OpfData("ltr", "orig", Manifest(feats)), "deflated"))
    \o << Entry(root \o <<"content.opf">>,
                OpfData(ppd, IF "et" \in feats THEN "et" ELSE "orig",
                        Manifest(feats)), "deflated"),
          Entry(root \o <<"ch1.xhtml">>, DocData("badutf8" \notin feats),
                "deflated") >>
    \o Opt("nostyle" \notin feats,
           Entry(root \o <<"style", "main.css">>,
                 CssData("badcss" \notin feats), "deflated"))
    \o Opt("fixcss" \in feats,
           Entry(root \o <<"style", "epub_fixer.css">>, FixCssData,
                 "deflated"))
    \o << Entry(root \o <<"img.png">>, BinData(tag), "deflated") >>

FeatureSets == {F \in SUBSET Features : Cardinality(F) <= MaxFeatures}

Packages ==
    {Package(r, d, F, "png") :
        r \in Roots, d \in {"rtl", "ltr", "absent"}, F \in FeatureSets}

(***************************************************************************)
(* The unpack directory: files in listing order.                           *)
(***************************************************************************)
File(n, d) == [name |-> n, data |-> d]

\* the index of the file at path p, 0 when there is none
FileAt(td, p) ==
    IF \E i \in 1..Len(td) : td[i].name = p
    THEN CHOOSE i \in 1..Len(td) : td[i].name = p
    ELSE 0

DirExists(td, d) ==
    \E i \in 1..Len(td) : IsPrefix(d, td[i].name) /\ Len(d) < Len(td[i].name)

\* os.path.exists
PathExists(td, p) == FileAt(td, p) # 0 \/ DirExists(td, p)

\* open(path, 'w').write(d): replaces the file, or creates it last
WriteFile(td, p, d) ==
    IF FileAt(td, p) # 0
    THEN [td EXCEPT ![FileAt(td, p)].data = d]
    ELSE Append(td, File(p, d))

\* zip_ref.extractall(temp_dir): a later entry of the same name overwrites
RECURSIVE ExtractAll(_, _)
ExtractAll(entries, td) ==
    IF entries = <<>> THEN td
    ELSE ExtractAll(Tail(entries),
                    WriteFile(td, Head(entries).name, Head(entries).data))

(***************************************************************************)
(* fix_epub, lines 53-92: the two loops over the book's items.             *)
(***************************************************************************)
\* lines 61-68: read the file as UTF-8, rewrite the markup, write it back
fix_html_file(d) ==
    [d EXCEPT !.passes = @ + 1, !.nstyle = IF @ = 0 THEN 1 ELSE @]

\* lines 83-89: read the file as UTF-8, rewrite the sheet, write it back
fix_css_file(d) == [d EXCEPT !.passes = @ + 1]

\* the first prefix under which the item's file exists, 0 when none does
FoundPrefix(td, file_name) ==
    IF \E j \in 1..Len(Prefixes) : PathExists(td, Prefixes[j] \o file_name)
    THEN CHOOSE j \in 1..Len(Prefixes) :
            /\ PathExists(td, Prefixes[j] \o file_name)
            /\ \A h \in 1..(j - 1) : ~PathExists(td, Prefixes[h] \o file_name)
    ELSE 0

\* open(file_path, 'r', encoding='utf-8').read() succeeds
Readable(td, p) ==
    /\ FileAt(td, p) # 0
    /\ td[FileAt(td, p)].data.k \in {"doc", "css"}
    /\ td[FileAt(td, p)].data.utf8

\* one loop over the items of the given type; ok is FALSE when a read raised
RECURSIVE FixItems(_, _, _)
FixItems(td, items, type) ==
    IF items = <<>> THEN [td |-> td, ok |-> TRUE]
    ELSE LET item == Head(items)
             j == FoundPrefix(td, item.file_name)
             p == Prefixes[j] \o item.file_name
         IN  IF item.type # type \/ j = 0
             THEN FixItems(td, Tail(items), type)
             ELSE IF ~Readable(td, p)
             THEN [td |-> td, ok |-> FALSE]
             ELSE LET d == td[FileAt(td, p)].data
                      fixed == IF type = ITEM_DOCUMENT THEN fix_html_file(d)
                               ELSE fix_css_file(d)
                  IN  FixItems(WriteFile(td, p, fixed), Tail(items), type)

(***************************************************************************)
(* fix_epub, lines 94-101: the shared override style sheet.                *)
(***************************************************************************)
StylePrefix(td) ==
    IF \E j \in 1..Len(Prefixes) : PathExists(td, Prefixes[j] \o <<"style">>)
    THEN CHOOSE j \in 1..Len(Prefixes) :
            /\ PathExists(td, Prefixes[j] \o <<"style">>)
            /\ \A h \in 1..(j - 1) : ~PathExists(td, Prefixes[h] \o <<"style">>)
    ELSE 0

AddFixCss(td) ==
    IF StylePrefix(td) = 0 THEN td
    ELSE WriteFile(td, Prefixes[StylePrefix(td)] \o <<"style", "epub_fixer.css">>,
                   FixCssData)

(***************************************************************************)
(* _fix_opf_direction.                                                     *)
(***************************************************************************)
\* the .opf files directly inside directory d
OpfsIn(td, d) ==
    {i \in 1..Len(td) : /\ Dirname(td[i].name) = d
                         /\ EndsWithOpf(Basename(td[i].name))}

\* lines 323-329: the files the search may settle on (listdir's order is the
\* file system's): the .opf files of the first prefix that holds one
OpfCandidates(td) ==
    IF \E j \in 1..Len(Prefixes) : OpfsIn(td, Prefixes[j]) # {}
    THEN OpfsIn(td, Prefixes[CHOOSE j \in 1..Len(Prefixes) :
                        /\ OpfsIn(td, Prefixes[j]) # {}
                        /\ \A h \in 1..(j - 1) : OpfsIn(td, Prefixes[h]) = {}])
    ELSE {}

\* lines 343-346: the spine's attribute after the patch
PatchSpine(ppd) == IF ppd = "rtl" THEN "ltr" ELSE ppd

\* lines 336-349: parse, patch the spine, write the tree back
PatchOpf(d) == [d EXCEPT !.ppd = PatchSpine(@), !.ser = "et"]

(***************************************************************************)
(* The files outside the unpack directory.                                 *)
(***************************************************************************)
Path(d, b) == [dir |-> d, base |-> b]
PA == Path("a", "x.epub")        \* a package
PB == Path("b", "x.epub")        \* another package, same file name
PMissing == Path("a", "y.epub")  \* no such file
PJunk == Path("a", "z.epub")     \* a file that is no archive
InputPaths == {PA, PB, PMissing, PJunk}
OutDirs == {"out", "ro"}
Paths ==
    InputPaths
    \cup {Path(d, b) : d \in OutDirs, b \in {"x.epub", "y.epub", "z.epub",
                                              "fixed.epub"}}

\* os.path.basename, os.path.join(output_dir, filename)
basename(p) == p.base
join(d, b) == Path(d, b)

\* a file can be created or truncated in every directory but "ro"
Writable(p) == p.dir # "ro"

\* batch_fix has not returned
NoResult == [k |-> "none"]
\* cli.py has not parsed a command line
NoArgs == [files |-> <<>>, output |-> None, output_dir |-> NoDir,
           overwrite |-> FALSE]

Missing == [k |-> "missing"]
Junk == [k |-> "junk"]
Zip(entries, st) == [k |-> "zip", entries |-> entries, state |-> st]

\* epub.read_epub: the items of the manifest META-INF/container.xml names
HasBook(entries) ==
    /\ FileAt(entries, <<"META-INF", "container.xml">>) # 0
    /\ FileAt(entries,
              entries[FileAt(entries, <<"META-INF", "container.xml">>)]
                  .data.rootfile) # 0
\* the book: its items and its toc
Book(items, t) == [items |-> items, toc |-> t]
NoBook == Book(<<>>, List(<<>>))
read_epub(entries) ==
    LET opf == entries[FileAt(entries,
                   entries[FileAt(entries, <<"META-INF", "container.xml">>)]
                       .data.rootfile)].data
    IN  Book(opf.manifest, opf.toc)

\* what `except Exception` catches: every exception the body raises here
Exceptions == {"FileNotFoundError", "BadZipFile", "KeyError",
               "UnicodeDecodeError", "PermissionError", "OSError"}
\* a handler that names only the errors of opening the input
Caught_narrow(e) == e \in {"FileNotFoundError", "BadZipFile"}
Caught(e) == e \in Exceptions

TypeOK ==
    /\ pc \in {"idle", "extract", "read", "docs", "css", "addcss", "opf",
                "open", "mimetype", "others", "close", "count", "except",
                "returned"}
    /\ retval \in {"none", "True", "False"}
    /\ processed_files \in Nat /\ total_files \in Nat
    /\ caller \in {"none", "single", "batch", "cli"}
    /\ cpc \in {"off", "validate", "dispatch", "single", "batch", "exited"}
    /\ exit_code \in {<<>>, <<0>>, <<1>>}

InitWith(pkgs) ==
    /\ \E a \in pkgs :
          fs = [p \in Paths |->
                  IF p = PA THEN Zip(a, "complete")
                  ELSE IF p = PB
                  THEN Zip(Package(<<"EPUB">>, "ltr", {}, "png-b"), "complete")
                  ELSE IF p = PJunk THEN Junk ELSE Missing]
    /\ processed_files = 0 /\ total_files = 0 /\ current_file = ""
    /\ pc = "idle" /\ input_path = None /\ output_path = None
    /\ temp_dir = <<>> /\ book = NoBook /\ in_entries = <<>>
    /\ retval = "none" /\ exc = "none" /\ escaped = FALSE
    /\ caller = "none" /\ input_paths = <<>> /\ output_dir = NoDir /\ bi = 0
    /\ success_count = 0 /\ failed_files = <<>> /\ fix_calls = <<>>
    /\ batch_result = NoResult /\ ops = 0
    /\ style = <<>> /\ fixed_style = <<>> /\ css_text = <<>>
    /\ fixed_css = <<>> /\ tpc = "off"
    /\ refixed_css = <<>> /\ content = <<>> /\ fixed_content = <<>>
    /\ refixed_content = <<>>
    /\ toc = List(<<>>) /\ fixed_toc = List(<<>>)
    /\ args = NoArgs /\ cpc = "off" /\ exit_code = <<>>
    /\ progress = <<>>
    /\ selected_files = <<>> /\ dest_set = FALSE /\ controls = "normal"
    /\ after_queue = <<>> /\ threads = <<>>

(***************************************************************************)
(* fix_epub, step by step.                                                 *)
(***************************************************************************)
\* lines 36-41: entry, current_file, the default of output_path
CallFix(inp, out) ==
    /\ pc' = "extract"
    /\ input_path' = inp
    /\ output_path' = IF out = None THEN inp ELSE out
    /\ current_file' = basename(inp)
    /\ temp_dir' = <<>> /\ book' = NoBook /\ in_entries' = <<>>
    /\ retval' = "none" /\ exc' = "none"
    /\ UNCHANGED <<escaped, fs, processed_files, total_files>>

\* the log entry of the running call gets its return value
Logged(log, ret) == [log EXCEPT ![Len(log)].ret = ret]

Raise(e) == pc' = "except" /\ exc' = e

\* lines 44-47: the unpack directory, ZipFile(input_path, 'r'), extractall
Extract ==
    /\ pc = "extract"
    /\ IF fs[input_path].k = "zip"
       THEN /\ in_entries' = fs[input_path].entries
            /\ temp_dir' = ExtractAll(fs[input_path].entries, <<>>)
            /\ pc' = "read" /\ exc' = exc
       ELSE /\ Raise(IF fs[input_path].k = "missing" THEN "FileNotFoundError"
                     ELSE "BadZipFile")
            /\ UNCHANGED <<in_entries, temp_dir>>
    /\ UNCHANGED <<callvars, outer, fs, processed_files, book, retval, escaped,
                   fix_calls>>

\* line 50
ReadEpub ==
    /\ pc = "read"
    /\ IF HasBook(fs[input_path].entries)
       THEN book' = read_epub(fs[input_path].entries) /\ pc' = "docs"
            /\ exc' = exc
       ELSE Raise("KeyError") /\ book' = book
    /\ UNCHANGED <<callvars, outer, fs, processed_files, temp_dir, in_entries,
                   retval, escaped, fix_calls>>

\* lines 53-74
FixDocs ==
    /\ pc = "docs"
    /\ LET r == FixItems(temp_dir, book.items, ITEM_DOCUMENT)
       IN  IF r.ok THEN temp_dir' = r.td /\ pc' = "css" /\ exc' = exc
           ELSE Raise("UnicodeDecodeError") /\ temp_dir' = temp_dir
    /\ UNCHANGED <<callvars, outer, fs, processed_files, book, in_entries,
                   retval, escaped, fix_calls>>

\* lines 77-92
FixCss ==
    /\ pc = "css"
    /\ LET r == FixItems(temp_dir, book.items, ITEM_STYLE)
       IN  IF r.ok THEN temp_dir' = r.td /\ pc' = "addcss" /\ exc' = exc
           ELSE Raise("UnicodeDecodeError") /\ temp_dir' = temp_dir
    /\ UNCHANGED <<callvars, outer, fs, processed_files, book, in_entries,
                   retval, escaped, fix_calls>>

\* lines 94-101
AddCss ==
    /\ pc = "addcss"
    /\ temp_dir' = AddFixCss(temp_dir)
    /\ pc' = "opf"
    /\ UNCHANGED <<callvars, outer, fs, processed_files, book, in_entries,
                   retval, exc, escaped, fix_calls>>

\* lines 103-104: _fix_opf_direction(temp_dir)
_fix_opf_direction ==
    /\ pc = "opf"
    /\ IF OpfCandidates(temp_dir) = {} THEN temp_dir' = temp_dir
       ELSE \E i \in OpfCandidates(temp_dir) :
               temp_dir' = [temp_dir EXCEPT ![i].data = PatchOpf(@)]
    /\ pc' = "open"
    /\ UNCHANGED <<callvars, outer, fs, processed_files, book, in_entries,
                   retval, exc, escaped, fix_calls>>

(***************************************************************************)
(* fix_epub, lines 106-120: the output archive.                            *)
(***************************************************************************)
\* line 116: the files the walk does not write
SkippedByWalk(file) == Basename(file.name) = "mimetype"

\* lines 114-120: the entries os.walk adds, in the directory's listing order
RECURSIVE WalkEntries(_)
WalkEntries(td) ==
    IF td = <<>> THEN <<>>
    ELSE (IF SkippedByWalk(Head(td)) THEN <<>>
          ELSE << Entry(Head(td).name, Head(td).data, "deflated") >>)
         \o WalkEntries(Tail(td))

\* the marker written without compress_type: the archive's default applies
MimetypeEntries_deflated(td) ==
    IF PathExists(td, <<"mimetype">>)
    THEN << Entry(<<"mimetype">>, td[FileAt(td, <<"mimetype">>)].data,
                  "deflated") >>
    ELSE <<>>
\* lines 109-111: the entry written before the walk
MimetypeEntries(td) ==
    IF PathExists(td, <<"mimetype">>)
    THEN << Entry(<<"mimetype">>, td[FileAt(td, <<"mimetype">>)].data,
                  "stored") >>
    ELSE <<>>

\* line 107: ZipFile(output_path, 'w') creates or truncates the file
OpenOut ==
    /\ pc = "open"
    /\ IF Writable(output_path)
       THEN /\ fs' = [fs EXCEPT ![output_path] = Zip(<<>>, "open")]
            /\ pc' = "mimetype" /\ exc' = exc
       ELSE Raise("PermissionError") /\ fs' = fs
    /\ UNCHANGED <<callvars, outer, processed_files, temp_dir, book,
                   in_entries, retval, escaped, fix_calls>>

WriteMimetype ==
    /\ pc = "mimetype"
    /\ fs' = [fs EXCEPT ![output_path].entries = @ \o MimetypeEntries(temp_dir)]
    /\ pc' = "others"
    /\ UNCHANGED <<callvars, outer, processed_files, temp_dir, book,
                   in_entries, retval, exc, escaped, fix_calls>>

WriteOthers ==
    /\ pc = "others"
    /\ fs' = [fs EXCEPT ![output_path].entries = @ \o WalkEntries(temp_dir)]
    /\ pc' = "close"
    /\ UNCHANGED <<callvars, outer, processed_files, temp_dir, book,
                   in_entries, retval, exc, escaped, fix_calls>>

\* a write into the archive raises (the disk is full, the medium is gone):
\* the with statement closes the archive with the entries it holds
WriteFails ==
    /\ pc \in {"mimetype", "others"}
    /\ fs' = [fs EXCEPT ![output_path].state = "partial"]
    /\ Raise("OSError")
    /\ UNCHANGED <<callvars, outer, processed_files, temp_dir, book,
                   in_entries, retval, escaped, fix_calls>>

\* the two with statements end: the archive is closed, the directory removed
CloseOut ==
    /\ pc = "close"
    /\ fs' = [fs EXCEPT ![output_path].state = "complete"]
    /\ temp_dir' = <<>>
    /\ pc' = "count"
    /\ UNCHANGED <<callvars, outer, processed_files, book, in_entries, retval,
                   exc, escaped, fix_calls>>

\* a pass that does not count the file
Processed_none(n) == n
\* line 122: self.processed_files += 1
Processed(n) == n + 1

\* lines 122-123
ReturnTrue ==
    /\ pc = "count"
    /\ processed_files' = Processed(processed_files)
    /\ retval' = "True"
    /\ fix_calls' = Logged(fix_calls, "True")
    /\ pc' = "returned"
    /\ UNCHANGED <<callvars, outer, fs, temp_dir, book, in_entries, exc,
                   escaped>>

\* lines 125-129; an exception the clause does not catch leaves fix_epub
Except ==
    /\ pc = "except"
    /\ temp_dir' = <<>>
    /\ IF Caught(exc)
       THEN /\ retval' = "False" /\ pc' = "returned" /\ escaped' = escaped
            /\ fix_calls' = Logged(fix_calls, "False")
       ELSE /\ retval' = retval /\ pc' = "idle" /\ escaped' = TRUE
            /\ fix_calls' = fix_calls
    /\ UNCHANGED <<callvars, outer, fs, processed_files, book, in_entries,
                   exc>>

FixStep ==
    \/ Extract \/ ReadEpub \/ FixDocs \/ FixCss \/ AddCss
    \/ _fix_opf_direction \/ OpenOut \/ WriteMimetype \/ WriteOthers
    \/ WriteFails \/ CloseOut \/ ReturnTrue \/ Except

(***************************************************************************)
(* Callers of fix_epub.                                                    *)
(***************************************************************************)
TopIdle == caller # "batch" /\ pc \in {"idle", "returned"} /\ ~escaped

Call(p, by) == [path |-> p, ret |-> "none", by |-> by]

\* a front end calls fix_epub for one file
SingleInputs == {PA, PMissing, PJunk}
SingleOutputs == {None, Path("out", "fixed.epub"), Path("ro", "fixed.epub")}

Single ==
    /\ TopIdle /\ ops < MaxOps
    /\ \E inp \in SingleInputs, out \in SingleOutputs :
          CallFix(inp, out) /\ fix_calls' = << Call(inp, "single") >>
    /\ caller' = "single"
    /\ ops' = ops + 1
    /\ UNCHANGED <<batchvars, textvars, clivars>>

(***************************************************************************)
(* batch_fix.                                                              *)
(***************************************************************************)
\* the input lists of the model: over two packages and a missing file
BatchInputs == {PA, PB, PMissing}
RECURSIVE ListsUpTo(_)
ListsUpTo(n) ==
    IF n = 0 THEN { <<>> }
    ELSE ListsUpTo(n - 1)
         \cup {Append(l, p) : l \in {m \in ListsUpTo(n - 1) : Len(m) = n - 1},
                              p \in BatchInputs}

BatchDirs == {NoDir, "out", "ro"}

\* lines 403-407
BatchEnter(paths, dir) ==
    /\ input_paths' = paths /\ output_dir' = dir
    /\ total_files' = Len(input_paths')
    /\ processed_files' = 0
    /\ success_count' = 0
    /\ failed_files' = <<>>
    /\ bi' = 1
    /\ batch_result' = NoResult
    /\ fix_calls' = <<>>
    /\ caller' = "batch"
    /\ pc' = "idle"
    /\ UNCHANGED <<fs, callvars, temp_dir, book, in_entries, retval, exc,
                   escaped>>

\* a front end calls batch_fix; a behaviour holds one batch, as a run of
\* the command line does
BatchCall ==
    /\ TopIdle /\ ops < MaxOps
    /\ batch_result = NoResult /\ input_paths = <<>> /\ bi = 0
    /\ \E paths \in ListsUpTo(MaxBatch), dir \in BatchDirs :
          BatchEnter(paths, dir)
    /\ ops' = ops + 1
    /\ UNCHANGED <<textvars, clivars>>

\* lines 410-414
BatchOutput(dir, inp) ==
    IF dir # NoDir THEN join(dir, basename(inp)) ELSE None

\* lines 409-416: the loop takes the next path and calls fix_epub
BatchFix ==
    /\ caller = "batch" /\ pc = "idle" /\ ~escaped
    /\ bi <= Len(input_paths)
    /\ CallFix(input_paths[bi], BatchOutput(output_dir, input_paths[bi]))
    /\ fix_calls' = Append(fix_calls, Call(input_paths[bi], "batch"))
    /\ UNCHANGED <<caller, batchvars, ops, textvars, clivars>>

\* lines 416-419: the result of the call is counted
\* a loop that stops at the first failure
NextIndex_break(i, n, ret) == IF ret = "True" THEN i + 1 ELSE n + 1
\* line 409: the loop goes on to the next path whatever the call returned
NextIndex(i, n, ret) == i + 1

Counted(n, ret) == IF ret = "True" THEN n + 1 ELSE n
Listed(failed, ret, inp) == IF ret = "True" THEN failed ELSE Append(failed, inp)

BatchCollect ==
    /\ caller = "batch" /\ pc = "returned"
    /\ success_count' = Counted(success_count, retval)
    /\ failed_files' = Listed(failed_files, retval, input_paths[bi])
    /\ bi' = NextIndex(bi, Len(input_paths), retval)
    /\ pc' = "idle"
    /\ UNCHANGED <<fs, processed_files, total_files, callvars, temp_dir, book,
                   in_entries, retval, exc, escaped, caller, input_paths,
                   output_dir, batch_result, fix_calls, ops, textvars,
                   clivars>>

\* lines 421-426
BatchReturn ==
    /\ caller = "batch" /\ pc = "idle" /\ ~escaped
    /\ bi > Len(input_paths)
    /\ batch_result' = [total |-> total_files,
                        success |-> success_count,
                        failed |-> Len(failed_files),
                        failed_files |-> failed_files]
    /\ caller' = "none"
    /\ UNCHANGED <<fs, processed_files, total_files, callvars, pc, temp_dir,
                   book, in_entries, retval, exc, escaped, input_paths,
                   output_dir, bi, success_count, failed_files, fix_calls, ops,
                   textvars, clivars>>

BatchStep == BatchCall \/ BatchFix \/ BatchCollect \/ BatchReturn

Next == Single \/ FixStep

Spec == InitWith(Packages) /\ [][Next]_vars

\* the packages batches are run on
BatchPackages ==
    {Package(<<"EPUB">>, "rtl", F, "png") : F \in {{}, {"badutf8"}}}

\* lines 428-435
get_progress == <<processed_files, total_files, current_file>>

\* a caller asks for the progress between two calls
GetProgress ==
    /\ TopIdle /\ ops < MaxOps
    /\ progress' = get_progress
    /\ ops' = ops + 1
    /\ UNCHANGED <<fs, processed_files, total_files, callvars, pc, temp_dir,
                   book, in_entries, retval, exc, escaped, caller, batchvars,
                   fix_calls, style, fixed_style, css_text, fixed_css, tpc,
                   againvars, tocvars, clivars, guivars>>

NextBatch == Single \/ BatchStep \/ FixStep \/ GetProgress

SpecBatch == InitWith(BatchPackages) /\ [][NextBatch]_vars

(***************************************************************************)
(* Text: a string is a sequence of one-character strings.                  *)
(***************************************************************************)
UpperCase == <<"A", "B", "C", "D", "E", "F", "G", "H", "I", "J", "K", "L", "M", "N", "O", "P", "Q", "R", "S", "T", "U", "V", "W", "X", "Y", "Z">>
LowerCase == <<"a", "b", "c", "d", "e", "f", "g", "h", "i", "j", "k", "l", "m", "n", "o", "p", "q", "r", "s", "t", "u", "v", "w", "x", "y", "z">>

\* str.lower
LowerChar(c) ==
    IF \E i \in 1..Len(UpperCase) : UpperCase[i] = c
    THEN LowerCase[CHOOSE i \in 1..Len(UpperCase) : UpperCase[i] = c]
    ELSE c
lower(s) == [i \in 1..Len(s) |-> LowerChar(s[i])]

\* sub occurs in s at position i
OccursAt(sub, s, i) ==
    /\ i + Len(sub) - 1 <= Len(s)
    /\ \A j \in 1..Len(sub) : s[i + j - 1] = sub[j]

\* the `in` of strings
Contains(sub, s) == \E i \in 1..Len(s) : OccursAt(sub, s, i)

\* str.split with a one-character separator
RECURSIVE split(_, _)
split(s, sep) ==
    IF \E i \in 1..Len(s) : s[i] = sep
    THEN LET i == CHOOSE k \in 1..Len(s) :
                     s[k] = sep /\ \A h \in 1..(k - 1) : s[h] # sep
         IN  << SubSeq(s, 1, i - 1) >> \o split(SubSeq(s, i + 1, Len(s)), sep)
    ELSE << s >>

\* str.strip
Whitespace == {" ", "\n", "\t"}
RECURSIVE lstrip(_)
lstrip(s) == IF s # <<>> /\ Head(s) \in Whitespace THEN lstrip(Tail(s)) ELSE s
RECURSIVE rstrip(_)
rstrip(s) ==
    IF s # <<>> /\ s[Len(s)] \in Whitespace
    THEN rstrip(SubSeq(s, 1, Len(s) - 1)) ELSE s
strip(s) == rstrip(lstrip(s))

\* sep.join(parts)
RECURSIVE str_join(_, _)
str_join(sep, parts) ==
    IF parts = <<>> THEN <<>>
    ELSE IF Len(parts) = 1 THEN parts[1]
    ELSE parts[1] \o sep \o str_join(sep, Tail(parts))

\* str.replace: the occurrences from the left, not overlapping
RECURSIVE replace(_, _, _)
replace(s, old, new) ==
    IF s = <<>> THEN <<>>
    ELSE IF OccursAt(old, s, 1)
    THEN new \o replace(SubSeq(s, Len(old) + 1, Len(s)), old, new)
    ELSE << Head(s) >> \o replace(Tail(s), old, new)

(***************************************************************************)
(* _fix_style_attribute.                                                   *)
(***************************************************************************)
kw_writing_mode == <<"w", "r", "i", "t", "i", "n", "g", "-", "m", "o", "d", "e">>
kw_vertical == <<"v", "e", "r", "t", "i", "c", "a", "l">>
kw_tb == <<"t", "b">>
kw_text_orientation == <<"t", "e", "x", "t", "-", "o", "r", "i", "e", "n", "t", "a", "t", "i", "o", "n">>
kw_webkit_writing_mode == <<"-", "w", "e", "b", "k", "i", "t", "-", "w", "r", "i", "t", "i", "n", "g", "-", "m", "o", "d", "e">>
kw_epub_writing_mode == <<"-", "e", "p", "u", "b", "-", "w", "r", "i", "t", "i", "n", "g", "-", "m", "o", "d", "e">>
kw_horizontal_tb == <<"h", "o", "r", "i", "z", "o", "n", "t", "a", "l", "-", "t", "b">>
kw_vertical_rl == <<"v", "e", "r", "t", "i", "c", "a", "l", "-", "r", "l">>
kw_vertical_lr == <<"v", "e", "r", "t", "i", "c", "a", "l", "-", "l", "r">>
kw_tb_rl == <<"t", "b", "-", "r", "l">>
kw_tb_lr == <<"t", "b", "-", "l", "r">>
HorizontalRule == <<"w", "r", "i", "t", "i", "n", "g", "-", "m", "o", "d", "e", ":", " ", "h", "o", "r", "i", "z", "o", "n", "t", "a", "l", "-", "t", "b">>

\* line 188
style_rules(s) ==
    LET parts == split(s, ";")
        stripped == [i \in 1..Len(parts) |-> strip(parts[i])]
    IN  SelectSeq(stripped, LAMBDA r : r # <<>>)

\* a test that forgets to lower the rule
IsVerticalRule_cased(rule) ==
    /\ Contains(kw_writing_mode, rule)
    /\ Contains(kw_vertical, rule) \/ Contains(kw_tb, rule)
\* lines 193-195
IsVerticalRule(rule) ==
    /\ Contains(kw_writing_mode, lower(rule))
    /\ Contains(kw_vertical, lower(rule)) \/ Contains(kw_tb, lower(rule))

\* lines 200-209
IsDroppedRule(rule) ==
    \/ Contains(kw_text_orientation, lower(rule))
    \/ Contains(kw_webkit_writing_mode, lower(rule))
    \/ Contains(kw_epub_writing_mode, lower(rule))

\* lines 191-211
RECURSIVE fixed_rules(_)
fixed_rules(rules) ==
    IF rules = <<>> THEN <<>>
    ELSE (IF IsVerticalRule(Head(rules)) THEN << HorizontalRule >>
          ELSE IF IsDroppedRule(Head(rules)) THEN <<>>
          ELSE << Head(rules) >>)
         \o fixed_rules(Tail(rules))

_fix_style_attribute(s) == str_join(<<";", " ">>, fixed_rules(style_rules(s)))

(***************************************************************************)
(* Properties of fix_epub and batch_fix.                                   *)
(***************************************************************************)
\* fix_epub has returned True
Success == pc = "returned" /\ retval = "True"
\* the entries of the archive at output_path
Out == fs[output_path].entries
Count(entries, n) == Cardinality({i \in 1..Len(entries) : entries[i].name = n})
Container == <<"META-INF", "container.xml">>

\* C1: no exception leaves fix_epub; it returns a boolean, False whenever
\* something raised (missing input, no archive, unreadable resource,
\* unwritable output) and True only with the output archive completely
\* written.
C1_NeverRaises ==
    /\ ~escaped
    /\ pc = "returned" => retval \in {"True", "False"}
    /\ (pc = "returned" /\ exc # "none") => retval = "False"
    /\ Success => /\ exc = "none"
                  /\ fs[output_path].k = "zip"
                  /\ fs[output_path].state = "complete"
C1_Witness ==
    /\ pc = "returned" /\ retval = "False" /\ exc = "PermissionError"
    /\ fs[input_path].k = "zip"

\* C2: batch_fix calls fix_epub once per input path, in order, failures
\* included; the result has total = number of paths, success + failed =
\* total, failed = length of failed_files, and failed_files is the
\* sub-sequence of the paths whose call returned False.
FailedCalls(log) ==
    LET failed == SelectSeq(log, LAMBDA c : c.ret = "False")
    IN  [i \in 1..Len(failed) |-> failed[i].path]
BatchReturned ==
    /\ batch_result # NoResult
    /\ \A i \in 1..Len(fix_calls) : fix_calls[i].by = "batch"
C2_BatchResult ==
    BatchReturned =>
        /\ Len(fix_calls) = Len(input_paths)
        /\ \A i \in 1..Len(fix_calls) :
              fix_calls[i].path = input_paths[i] /\ fix_calls[i].ret # "none"
        /\ batch_result.total = Len(input_paths)
        /\ batch_result.success + batch_result.failed = batch_result.total
        /\ batch_result.failed = Len(batch_result.failed_files)
        /\ batch_result.failed_files = FailedCalls(fix_calls)
C2_Witness ==
    /\ BatchReturned
    /\ batch_result.total = 3 /\ batch_result.success = 2
    /\ batch_result.failed = 1 /\ batch_result.failed_files = << PMissing >>
    /\ input_paths[2] = PMissing

\* C3: after a successful pass over N entries every entry of kind other
\* has its bytes unchanged, and the output holds N + 1 entries when no
\* entry was at the override style sheet's path and N when one was,
\* whatever the layout (also without a style directory).
FixCssPaths == {r \o <<"style", "epub_fixer.css">> : r \in Roots}
HadFixCss(entries) == \E i \in 1..Len(entries) : entries[i].name \in FixCssPaths
KeptAs(entries, e) ==
    /\ Count(entries, e.name) = 1
    /\ entries[FileAt(entries, e.name)].data = e.data
C3_CountAndOthers ==
    Success =>
        /\ \A i \in 1..Len(in_entries) :
              in_entries[i].data.k = "bin" => KeptAs(Out, in_entries[i])
        /\ Len(Out) = Len(in_entries)
                        + (IF HadFixCss(in_entries) THEN 0 ELSE 1)

\* C4: a successful pass drops and duplicates no entry: every entry of the
\* input is in the output exactly once at the same path (a file named
\* mimetype in a sub-directory too), with the same bytes unless it is a
\* rewrite target.
RewriteTarget(e) == e.data.k \in {"doc", "css", "opf", "fixcss"}
C4_NoEntryDropped ==
    Success =>
        \A i \in 1..Len(in_entries) :
            /\ Count(Out, in_entries[i].name) = 1
            /\ ~RewriteTarget(in_entries[i]) => KeptAs(Out, in_entries[i])

\* C5: when the input has a root mimetype entry, the output of a
\* successful pass has mimetype first, stored, with the same bytes and
\* exactly once, and every later entry deflated.
C5_MimetypeFirst ==
    (Success /\ FileAt(in_entries, <<"mimetype">>) # 0) =>
        /\ Len(Out) >= 1
        /\ Out[1].name = <<"mimetype">>
        /\ Out[1].comp = "stored"
        /\ Out[1].data = in_entries[FileAt(in_entries, <<"mimetype">>)].data
        /\ Count(Out, <<"mimetype">>) = 1
        /\ \A i \in 2..Len(Out) : Out[i].comp = "deflated"
C5_Witness ==
    /\ Success /\ FileAt(in_entries, <<"mimetype">>) # 0
    /\ Len(Out) > 3

\* C6: after a successful pass the spine of the output package's manifest
\* (the one its container names) never has page-progression-direction
\* rtl, wherever the manifest lives and whichever .opf the search found.
OutManifest == Out[FileAt(Out, Out[FileAt(Out, Container)].data.rootfile)].data
C6_NeverRtl == Success => OutManifest.ppd # "rtl"

\* C7: the direction patcher only turns rtl into ltr: a manifest whose
\* spine attribute is absent or ltr is left as it was, bytes included.
C7_OnlyRtlRewritten ==
    [][pc = "opf" =>
         \A i \in 1..Len(temp_dir) :
             (temp_dir[i].data.k = "opf" /\ temp_dir[i].data.ppd # "rtl")
                 => temp_dir'[i] = temp_dir[i]]_vars

\* C13: a document or style sheet of the package that cannot be decoded
\* does not fail the file: with nothing else going wrong fix_epub returns
\* True and the output holds that resource with its original bytes.
Undecodable(entries) ==
    {i \in 1..Len(entries) : /\ entries[i].data.k \in {"doc", "css"}
                              /\ ~entries[i].data.utf8}
C13_DecodeFailureNotFatal ==
    (/\ pc = "returned" /\ Undecodable(in_entries) # {}
     /\ exc \in {"none", "UnicodeDecodeError"}) =>
        /\ retval = "True"
        /\ \A i \in Undecodable(in_entries) : KeptAs(Out, in_entries[i])

\* C17: when fix_epub has written the package, the identifier repair has
\* been run on the book's navigation structure: no link of book.toc is
\* left without an identifier.
RECURSIVE UnsetLinks(_)
UnsetLinks(item) ==
    IF item.kind \in {"tuple", "list"}
    THEN \E k \in 1..Len(item.items) : UnsetLinks(item.items[k])
    ELSE item.kind = "Link" /\ item.uid = UidNone
C17_TocRepairedBeforeWrite == Success => ~UnsetLinks(book.toc)

\* C18: after a successful pass every document and every style sheet of
\* the package has gone through its rewriter and been written back once,
\* wherever in the archive it is stored.
C18_EveryResourceRewritten ==
    Success =>
        \A i \in 1..Len(in_entries) :
            in_entries[i].data.k \in {"doc", "css"} =>
                /\ Count(Out, in_entries[i].name) = 1
                /\ Out[FileAt(Out, in_entries[i].name)].data.passes
                       = in_entries[i].data.passes + 1

TrueCalls(log) == Len(SelectSeq(log, LAMBDA c : c.ret = "True"))
C20_CounterStep ==
    /\ ((pc' = "returned" /\ pc # "returned") =>
           (processed_files' = processed_files
                               + (IF retval' = "True" THEN 1 ELSE 0)))
    /\ ((caller' = "batch" /\ caller # "batch") =>
           (processed_files' = 0 /\ total_files' = Len(input_paths')))
    /\ ((processed_files' # processed_files) =>
           (\/ (pc' = "returned" /\ pc # "returned")
            \/ (caller' = "batch" /\ caller # "batch")))
    /\ ((progress' # progress) =>
           (progress' = <<processed_files, total_files, current_file>>))
\* C20: processed_files counts the calls of fix_epub that returned True:
\* a step changes it only by adding 1 as fix_epub returns True or by the
\* reset to 0 at the entry of batch_fix, which also sets total_files to
\* the number of inputs; during a batch it is the number of calls that
\* returned True so far and lies between 0 and total_files; when batch_fix
\* has returned it equals the reported success count; get_progress
\* returns (processed_files, total_files, current_file).
C20_ProcessedCounter ==
    /\ [](caller = "batch" =>
            (/\ total_files = Len(input_paths)
             /\ processed_files = TrueCalls(fix_calls)
             /\ 0 <= processed_files
             /\ processed_files <= total_files))
    /\ [](BatchReturned => processed_files = batch_result.success)
    /\ [][C20_CounterStep]_vars
C20_Witness ==
    /\ BatchReturned /\ ops = MaxOps
    /\ fs[Path("out", "fixed.epub")].k = "zip"
    /\ batch_result.total = 3 /\ batch_result.success = 2
    /\ processed_files = 2

\* C21: a call of fix_epub that returns False leaves its input file as it
\* was before the call: when the input could be read, the file at
\* input_path is still an archive that holds exactly the entries that were
\* read from it; when it could not be read, it is still the missing or
\* unreadable file it was.
C21_FailureKeepsInput ==
    (pc = "returned" /\ retval = "False") =>
        IF in_entries # <<>>
        THEN /\ fs[input_path].k = "zip"
             /\ fs[input_path].entries = in_entries
        ELSE fs[input_path].k # "zip"

\* the archive at path p holds entry e with the bytes e has
Holds(p, e) ==
    /\ fs[p].k = "zip"
    /\ \E k \in 1..Len(fs[p].entries) :
          fs[p].entries[k].name = e.name /\ fs[p].entries[k].data = e.data
\* C22: after a batch of pairwise different input paths into a shared
\* output directory, the inputs whose calls returned True were written to
\* different output paths, and every such input has its own package in the
\* output directory: the archive at its output path holds every binary
\* entry of that input.
C22_OwnOutput ==
    (/\ BatchReturned /\ output_dir # NoDir
     /\ \A i, j \in 1..Len(input_paths) :
           i # j => input_paths[i] # input_paths[j]) =>
        /\ \A i, j \in 1..Len(input_paths) :
              (/\ input_paths[i] # input_paths[j]
               /\ fix_calls[i].ret = "True" /\ fix_calls[j].ret = "True") =>
                  BatchOutput(output_dir, input_paths[i])
                      # BatchOutput(output_dir, input_paths[j])
        /\ \A i \in 1..Len(input_paths) :
              fix_calls[i].ret = "True" =>
                  \A k \in 1..Len(fs[input_paths[i]].entries) :
                      fs[input_paths[i]].entries[k].data.k = "bin" =>
                          Holds(BatchOutput(output_dir, input_paths[i]),
                                fs[input_paths[i]].entries[k])

(***************************************************************************)
(* _fix_css_content, on the text it decoded.                               *)
(***************************************************************************)
\* line 236, on the lowered line
IsVerticalLine(line_lower) ==
    /\ Contains(kw_writing_mode, line_lower)
    /\ \/ Contains(kw_vertical, line_lower)
       \/ Contains(kw_tb_rl, line_lower)
       \/ Contains(kw_tb, line_lower)

\* a chain that misses the first substitution
ReplaceVertical_partial(line) ==
    replace(replace(replace(line, kw_vertical_lr, kw_horizontal_tb),
                    kw_tb_rl, kw_horizontal_tb),
            kw_tb_lr, kw_horizontal_tb)
\* lines 238-241
ReplaceVertical(line) ==
    replace(replace(replace(replace(line, kw_vertical_rl, kw_horizontal_tb),
                            kw_vertical_lr, kw_horizontal_tb),
                    kw_tb_rl, kw_horizontal_tb),
            kw_tb_lr, kw_horizontal_tb)

\* lines 246 and 252
Commented(line) == <<"/", "*", " ">> \o line \o <<" ", "*", "/">>

\* lines 250-251, on the lowered line
IsVendorVerticalLine(line_lower) ==
    /\ \/ Contains(kw_webkit_writing_mode, line_lower)
       \/ Contains(kw_epub_writing_mode, line_lower)
    /\ Contains(kw_vertical, line_lower)

\* lines 233-255: one line of the sheet
fixed_line(line) ==
    IF IsVerticalLine(lower(line)) THEN ReplaceVertical(line)
    ELSE IF Contains(kw_text_orientation, lower(line)) THEN Commented(line)
    ELSE IF IsVendorVerticalLine(lower(line)) THEN Commented(line)
    ELSE line

\* lines 229-257
_fix_css_content(text) ==
    LET lines == split(text, "\n")
    IN  str_join(<<"\n">>, [i \in 1..Len(lines) |-> fixed_line(lines[i])])

(***************************************************************************)
(* Calls of _fix_style_attribute on declarations built from a vocabulary   *)
(* of properties and values.                                               *)
(***************************************************************************)
MaxRules == 2      \* rules in a declaration

StyleProps == {
    <<"w", "r", "i", "t", "i", "n", "g", "-", "m", "o", "d", "e">>,
    <<"-", "w", "e", "b", "k", "i", "t", "-", "w", "r", "i", "t", "i", "n", "g", "-", "m", "o", "d", "e">>,
    <<"W", "R", "I", "T", "I", "N", "G", "-", "M", "O", "D", "E">>,
    <<"t", "e", "x", "t", "-", "o", "r", "i", "e", "n", "t", "a", "t", "i", "o", "n">>,
    <<"v", "e", "r", "t", "i", "c", "a", "l", "-", "a", "l", "i", "g", "n">>,
    <<"w", "i", "l", "l", "-", "c", "h", "a", "n", "g", "e">> }

StyleValues == {
    <<"v", "e", "r", "t", "i", "c", "a", "l", "-", "r", "l">>,
    <<"V", "E", "R", "T", "I", "C", "A", "L", "-", "R", "L">>,
    <<"t", "b", "-", "r", "l">>,
    <<"l", "r">>,
    <<"t", "o", "p">>,
    <<"t", "e", "x", "t", "-", "o", "r", "i", "e", "n", "t", "a", "t", "i", "o", "n">> }

NumRules(s) == Cardinality({i \in 1..Len(s) : s[i] = ";"})

InitText ==
    /\ fs = [p \in Paths |-> Missing]
    /\ processed_files = 0 /\ total_files = 0 /\ current_file = ""
    /\ pc = "idle" /\ input_path = None /\ output_path = None
    /\ temp_dir = <<>> /\ book = NoBook /\ in_entries = <<>>
    /\ retval = "none" /\ exc = "none" /\ escaped = FALSE
    /\ caller = "none" /\ input_paths = <<>> /\ output_dir = NoDir /\ bi = 0
    /\ success_count = 0 /\ failed_files = <<>> /\ fix_calls = <<>>
    /\ batch_result = NoResult /\ ops = 0
    /\ style = <<>> /\ fixed_style = <<>> /\ css_text = <<>>
    /\ fixed_css = <<>> /\ tpc = "build"
    /\ refixed_css = <<>> /\ content = <<>> /\ fixed_content = <<>>
    /\ refixed_content = <<>>
    /\ toc = List(<<>>) /\ fixed_toc = List(<<>>)
    /\ args = NoArgs /\ cpc = "off" /\ exit_code = <<>>
    /\ progress = <<>>
    /\ selected_files = <<>> /\ dest_set = FALSE /\ controls = "normal"
    /\ after_queue = <<>> /\ threads = <<>>

pipevars == <<fs, processed_files, total_files, current_file, pc, input_path,
              output_path, temp_dir, book, in_entries, retval, exc, escaped,
              caller, input_paths, output_dir, bi, success_count,
              failed_files, fix_calls, batch_result, ops, clivars,
              progress, guivars>>
nontext == <<pipevars, tocvars>>

\* the caller writes one more rule into the declaration
StyleAddRule ==
    /\ tpc = "build" /\ NumRules(style) < MaxRules
    /\ \E p \in StyleProps, v \in StyleValues :
          style' = (IF style = <<>> THEN <<>> ELSE style \o <<" ">>)
                   \o p \o <<":", " ">> \o v \o <<";">>
    /\ UNCHANGED <<nontext, fixed_style, css_text, fixed_css, tpc, againvars>>

StyleCall ==
    /\ tpc = "build"
    /\ fixed_style' = _fix_style_attribute(style)
    /\ tpc' = "done"
    /\ UNCHANGED <<nontext, style, css_text, fixed_css, againvars>>

NextStyle == StyleAddRule \/ StyleCall

SpecStyle == InitText /\ [][NextStyle]_vars

(***************************************************************************)
(* Properties of _fix_style_attribute.                                     *)
(***************************************************************************)
\* the property and the value of a rule: around its first colon
PropertyOf(rule) == lower(strip(split(rule, ":")[1]))
ValueOf(rule) == lower(SubSeq(rule, Len(split(rule, ":")[1]) + 2, Len(rule)))
WritingModeProps ==
    {kw_writing_mode, kw_webkit_writing_mode, kw_epub_writing_mode}
IsVerticalValue(v) ==
    Contains(kw_vertical, v) \/ Contains(kw_tb_rl, v) \/ Contains(kw_tb_lr, v)
HasVerticalWritingMode(s) ==
    \E i \in 1..Len(style_rules(s)) :
        /\ PropertyOf(style_rules(s)[i]) \in WritingModeProps
        /\ IsVerticalValue(ValueOf(style_rules(s)[i]))
Range(q) == {q[i] : i \in 1..Len(q)}

\* C8, as the specification states it: a declaration with a vertical writing-mode rule comes
\* out containing horizontal-tb and no substring vertical at all.
C8_NoVerticalAnywhere ==
    (tpc = "done" /\ HasVerticalWritingMode(style)) =>
        /\ Contains(kw_horizontal_tb, fixed_style)
        /\ ~Contains(kw_vertical, fixed_style)

\* C8, as the code supports it: a declaration with a vertical writing-mode rule (any
\* letter case) comes out containing horizontal-tb, and vertical (in any
\* letter case) is left only inside rules kept unchanged that do not
\* mention writing-mode.
C8_NoVerticalWritingMode ==
    (tpc = "done" /\ HasVerticalWritingMode(style)) =>
        /\ Contains(kw_horizontal_tb, fixed_style)
        /\ \A r \in Range(style_rules(fixed_style)) :
              Contains(kw_vertical, lower(r)) =>
                  /\ ~Contains(kw_writing_mode, lower(r))
                  /\ r \in Range(style_rules(style))
C8_Witness ==
    /\ tpc = "done" /\ HasVerticalWritingMode(style)
    /\ Contains(<<"W", "R", "I", "T", "I", "N", "G", "-", "M", "O", "D", "E", ":", " ", "V", "E", "R", "T", "I", "C", "A", "L", "-", "R", "L">>, style)
    /\ Contains(<<"v", "e", "r", "t", "i", "c", "a", "l", "-", "a", "l", "i", "g", "n">>, fixed_style)

\* C9: the output never contains text-orientation, and the rules whose
\* property is neither a writing-mode property nor text-orientation come
\* out unchanged, once each and in their order.
OtherRules(s) ==
    SelectSeq(style_rules(s),
              LAMBDA r : PropertyOf(r) \notin
                             WritingModeProps \cup {kw_text_orientation})
C9_OtherRulesKept ==
    tpc = "done" =>
        /\ ~Contains(kw_text_orientation, lower(fixed_style))
        /\ OtherRules(fixed_style) = OtherRules(style)

(***************************************************************************)
(* Calls of _fix_css_content on sheets built from a vocabulary of lines.   *)
(***************************************************************************)
MaxLines == 2      \* lines in a style sheet

CssLines == {
    <<"w", "r", "i", "t", "i", "n", "g", "-", "m", "o", "d", "e", ":", " ", "v", "e", "r", "t", "i", "c", "a", "l", "-", "r", "l", ";">>,
    <<"-", "w", "e", "b", "k", "i", "t", "-", "w", "r", "i", "t", "i", "n", "g", "-", "m", "o", "d", "e", ":", " ", "v", "e", "r", "t", "i", "c", "a", "l", "-", "r", "l", ";">>,
    <<"W", "R", "I", "T", "I", "N", "G", "-", "M", "O", "D", "E", ":", " ", "V", "E", "R", "T", "I", "C", "A", "L", "-", "R", "L", ";">>,
    <<"w", "r", "i", "t", "i", "n", "g", "-", "m", "o", "d", "e", ":", " ", "t", "b", "-", "l", "r", ";">>,
    <<"w", "r", "i", "t", "i", "n", "g", "-", "m", "o", "d", "e", ":", " ", "h", "o", "r", "i", "z", "o", "n", "t", "a", "l", "-", "t", "b", ";">>,
    <<"t", "e", "x", "t", "-", "o", "r", "i", "e", "n", "t", "a", "t", "i", "o", "n", ":", " ", "u", "p", "r", "i", "g", "h", "t", ";">>,
    <<"/", "*", " ", "w", "r", "i", "t", "i", "n", "g", "-", "m", "o", "d", "e", ":", " ", "v", "e", "r", "t", "i", "c", "a", "l", "-", "r", "l", ";", " ", "*", "/">>,
    <<".", "v", "e", "r", "t", "i", "c", "a", "l", "-", "r", "l", " ", "{", " ", "c", "o", "l", "o", "r", ":", " ", "r", "e", "d", " ", "}">>,
    <<"f", "o", "n", "t", "-", "s", "i", "z", "e", ":", " ", "1", "6", "p", "x", ";">> }

NumLines(text) ==
    IF text = <<>> THEN 0
    ELSE 1 + Cardinality({i \in 1..Len(text) : text[i] = "\n"})

\* the caller writes one more line into the sheet
CssAddLine ==
    /\ tpc = "build" /\ NumLines(css_text) < MaxLines
    /\ \E l \in CssLines :
          css_text' = (IF css_text = <<>> THEN <<>> ELSE css_text \o <<"\n">>)
                      \o l
    /\ UNCHANGED <<nontext, style, fixed_style, fixed_css, tpc, againvars>>

CssCall ==
    /\ tpc = "build"
    /\ fixed_css' = _fix_css_content(css_text)
    /\ tpc' = "done"
    /\ UNCHANGED <<nontext, style, fixed_style, css_text, againvars>>

\* the rewriter is given its own result, as a second pass over a package
\* gives it
CssCallAgain ==
    /\ tpc = "done"
    /\ refixed_css' = _fix_css_content(fixed_css)
    /\ tpc' = "again"
    /\ UNCHANGED <<nontext, style, fixed_style, css_text, fixed_css, content,
                   fixed_content, refixed_content>>

NextCss == CssAddLine \/ CssCall \/ CssCallAgain

SpecCss == InitText /\ [][NextCss]_vars

(***************************************************************************)
(* Properties of _fix_css_content.                                         *)
(***************************************************************************)
\* the text outside block comments
RECURSIVE Uncommented(_)
Uncommented(text) ==
    IF text = <<>> THEN <<>>
    ELSE IF OccursAt(<<"/", "*">>, text, 1)
    THEN IF \E i \in 3..Len(text) : OccursAt(<<"*", "/">>, text, i)
         THEN LET e == CHOOSE i \in 3..Len(text) :
                          /\ OccursAt(<<"*", "/">>, text, i)
                          /\ \A h \in 3..(i - 1) : ~OccursAt(<<"*", "/">>, text, h)
              IN  << " " >> \o Uncommented(SubSeq(text, e + 2, Len(text)))
         ELSE <<>>
    ELSE << Head(text) >> \o Uncommented(Tail(text))

HasVerticalRl(text) == Contains(<<"w", "r", "i", "t", "i", "n", "g", "-", "m", "o", "d", "e", ":", " ", "v", "e", "r", "t", "i", "c", "a", "l", "-", "r", "l">>, text)

C12_CssIdempotent == tpc = "again" => refixed_css = fixed_css

\* C19: detection and substitution are case-insensitive and complete: a
\* line with writing-mode and one of vertical-rl, vertical-lr, tb-rl,
\* tb-lr (in any letter case) comes out with horizontal-tb and without
\* any of the four (in any letter case); a line no rule matches comes
\* out unchanged; the number of lines stays.
VerticalTokens == {kw_vertical_rl, kw_vertical_lr, kw_tb_rl, kw_tb_lr}
HasVerticalToken(l) == \E t \in VerticalTokens : Contains(t, lower(l))
NoRuleMatches(l) ==
    /\ ~IsVerticalLine(lower(l))
    /\ ~Contains(kw_text_orientation, lower(l))
    /\ ~IsVendorVerticalLine(lower(l))
C19_CaseInsensitiveSubstitution ==
    tpc = "done" =>
        LET lines == split(css_text, "\n")
            fixed_lines == split(fixed_css, "\n")
        IN  /\ Len(fixed_lines) = Len(lines)
            /\ \A i \in 1..Len(lines) :
                  /\ (Contains(kw_writing_mode, lower(lines[i]))
                      /\ HasVerticalToken(lines[i])) =>
                         /\ ~HasVerticalToken(fixed_lines[i])
                         /\ Contains(kw_horizontal_tb, fixed_lines[i])
                  /\ NoRuleMatches(lines[i]) => fixed_lines[i] = lines[i]

(***************************************************************************)
(* _fix_html_content.  Markup is a sequence of tokens: the start tag and   *)
(* the end tag of a head element, and whole elements (a style element, a   *)
(* body or a p with its style attribute).  html.parser keeps a stack of    *)
(* open tags: an end tag with no open tag of its name is ignored, and      *)
(* str(soup) closes what is still open at the end of the markup.           *)
(***************************************************************************)
Tag(t, name, id, st) == [t |-> t, name |-> name, id |-> id, style |-> st]
HeadOpen == Tag("open", "head", "", <<>>)
HeadClose == Tag("close", "head", "", <<>>)
\* lines 166-168: the style element that holds _get_fix_css()
style_tag == Tag("elem", "style", "epub-fixer-style", <<>>)

\* line 143 and line 171: BeautifulSoup(content, 'html.parser'), then
\* str(soup), without the changes in between
RECURSIVE soup(_, _)
soup(tokens, open) ==
    IF tokens = <<>> THEN [k \in 1..open |-> HeadClose]
    ELSE LET tok == Head(tokens)
         IN  IF tok.t = "open" THEN <<tok>> \o soup(Tail(tokens), open + 1)
             ELSE IF tok.t = "close"
             THEN IF open = 0 THEN soup(Tail(tokens), 0)
                  ELSE <<tok>> \o soup(Tail(tokens), open - 1)
             ELSE <<tok>> \o soup(Tail(tokens), open)

\* soup.find(name): the first tag of that name in document order, 0 if none
find(doc, name) ==
    IF \E k \in 1..Len(doc) : doc[k].t # "close" /\ doc[k].name = name
    THEN CHOOSE k \in 1..Len(doc) :
            /\ doc[k].t # "close" /\ doc[k].name = name
            /\ \A h \in 1..(k - 1) : ~(doc[h].t # "close" /\ doc[h].name = name)
    ELSE 0

\* open tags minus end tags over doc[i..j]
Depth(doc, i, j) ==
    Cardinality({k \in i..j : doc[k].t = "open"})
    - Cardinality({k \in i..j : doc[k].t = "close"})

\* the end tag of the tag opened at i (doc is a serialized document)
EndOf(doc, i) ==
    CHOOSE j \in (i + 1)..Len(doc) :
        /\ Depth(doc, i, j) = 0
        /\ \A h \in i..(j - 1) : Depth(doc, i, h) > 0

\* a rewriter that appends the block without looking for one
existing_style_none(doc, i) == FALSE
\* line 164: head.find('style', id='epub-fixer-style'), among descendants
existing_style(doc, i) ==
    \E k \in (i + 1)..(EndOf(doc, i) - 1) :
        /\ doc[k].t = "elem" /\ doc[k].name = "style"
        /\ doc[k].id = "epub-fixer-style"

\* lines 146-158: the first body with a style goes through
\* _fix_style_attribute at line 151 and again in the loop of line 155
fix_tag_styles(doc) ==
    [k \in 1..Len(doc) |->
        IF doc[k].style = <<>> THEN doc[k]
        ELSE IF k = find(doc, "body")
        THEN [doc[k] EXCEPT
                 !.style = _fix_style_attribute(_fix_style_attribute(@))]
        ELSE [doc[k] EXCEPT !.style = _fix_style_attribute(@)]]

\* lines 161-169: head.append(style_tag) unless the head holds one
inject(doc) ==
    LET i == find(doc, "head")
    IN  IF i = 0 \/ existing_style(doc, i) THEN doc
        ELSE SubSeq(doc, 1, EndOf(doc, i) - 1) \o << style_tag >>
             \o SubSeq(doc, EndOf(doc, i), Len(doc))

_fix_html_content(c) == inject(fix_tag_styles(soup(c, 0)))

(***************************************************************************)
(* Calls of _fix_html_content on markup built from a vocabulary of tokens, *)
(* and a second call on the result of the first.                           *)
(***************************************************************************)
MaxTokens == 4     \* tokens in a document

HtmlTokens == {
    HeadOpen, HeadClose, style_tag,
    Tag("elem", "style", "", <<>>),
    Tag("elem", "body", "", <<"w", "r", "i", "t", "i", "n", "g", "-", "m", "o", "d", "e", ":", " ", "v", "e", "r", "t", "i", "c", "a", "l", "-", "r", "l", ";">>),
    Tag("elem", "p", "", <<"c", "o", "l", "o", "r", ":", " ", "r", "e", "d">>) }

\* the caller writes one more token into the markup
HtmlAddToken ==
    /\ tpc = "build" /\ Len(content) < MaxTokens
    /\ \E tok \in HtmlTokens : content' = Append(content, tok)
    /\ UNCHANGED <<nontext, style, fixed_style, css_text, fixed_css, tpc,
                   refixed_css, fixed_content, refixed_content>>

HtmlCall ==
    /\ tpc = "build"
    /\ fixed_content' = _fix_html_content(content)
    /\ tpc' = "done"
    /\ UNCHANGED <<nontext, style, fixed_style, css_text, fixed_css,
                   refixed_css, content, refixed_content>>

HtmlCallAgain ==
    /\ tpc = "done"
    /\ refixed_content' = _fix_html_content(fixed_content)
    /\ tpc' = "again"
    /\ UNCHANGED <<nontext, style, fixed_style, css_text, fixed_css,
                   refixed_css, content, fixed_content>>

NextHtml == HtmlAddToken \/ HtmlCall \/ HtmlCallAgain

SpecHtml == InitText /\ [][NextHtml]_vars

(***************************************************************************)
(* Properties of _fix_html_content.                                        *)
(***************************************************************************)
IsFixStyle(tok) ==
    tok.t = "elem" /\ tok.name = "style" /\ tok.id = "epub-fixer-style"
NumFixStyles(doc) == Cardinality({k \in 1..Len(doc) : IsFixStyle(doc[k])})
\* the first head element of a serialized document, tags included
HeadOf(doc) == SubSeq(doc, find(doc, "head"), EndOf(doc, find(doc, "head")))
HasHead(doc) == find(doc, "head") # 0

\* C11, as the specification states it: a document with a head holds
\* exactly one style element with id epub-fixer-style after one call and
\* after two, and the second call leaves the head as the first left it.
C11_ExactlyOneBlock ==
    /\ (tpc \in {"done", "again"} /\ HasHead(content)) =>
           NumFixStyles(fixed_content) = 1
    /\ (tpc = "again" /\ HasHead(content)) =>
           /\ NumFixStyles(refixed_content) = 1
           /\ HeadOf(refixed_content) = HeadOf(fixed_content)

\* C11, as the code supports it: the first head holds at least one such
\* element after a call; the call adds one only to a head that holds
\* none and removes none, so a document without the element comes out
\* with exactly one, in its head; the second call changes nothing.
C11_NoDuplicateBlock ==
    /\ (tpc \in {"done", "again"} /\ HasHead(content)) =>
           /\ NumFixStyles(HeadOf(fixed_content)) >= 1
           /\ NumFixStyles(fixed_content) \in
                  {NumFixStyles(content), NumFixStyles(content) + 1}
           /\ NumFixStyles(content) = 0 =>
                  /\ NumFixStyles(fixed_content) = 1
                  /\ NumFixStyles(HeadOf(fixed_content)) = 1
    /\ (tpc = "again" /\ HasHead(content)) =>
           refixed_content = fixed_content
C11_Witness ==
    /\ tpc = "again" /\ HasHead(content)
    /\ NumFixStyles(content) = 0 /\ Len(content) = MaxTokens
    /\ NumFixStyles(refixed_content) = 1
    /\ \E k \in 1..Len(content) : content[k].name = "body"

(***************************************************************************)
(* _fix_toc_uids.  uuid.uuid4() is modelled by a counter: the n-th value   *)
(* it returns differs from every other value and from every string.        *)
(***************************************************************************)
\* hasattr(item, 'uid')
hasattr_uid(item) == item.kind = "Link"

\* lines 272-284; n counts the values uuid4 has returned; the result is
\* the item after the call and the new count.  fix_toc_items is the loop
\* of lines 276-277 and 279-280.
RECURSIVE fix_toc_item(_, _), fix_toc_items(_, _)
fix_toc_item(item, n) ==
    IF item.kind \in {"tuple", "list"}
    THEN LET r == fix_toc_items(item.items, n)
         IN  [item |-> [item EXCEPT !.items = r.items], n |-> r.n]
    ELSE IF hasattr_uid(item) /\ item.uid = UidNone
    THEN [item |-> [item EXCEPT !.uid = uuid4(n + 1)], n |-> n + 1]
    ELSE [item |-> item, n |-> n]
fix_toc_items(items, n) ==
    IF items = <<>> THEN [items |-> <<>>, n |-> n]
    ELSE LET h == fix_toc_item(Head(items), n)
             t == fix_toc_items(Tail(items), h.n)
         IN  [items |-> <<h.item>> \o t.items, n |-> t.n]

\* bool(book.toc): an empty list or tuple is false
Truthy(t) == ~(t.kind \in {"tuple", "list"} /\ t.items = <<>>)

\* lines 286-291
_fix_toc_uids(t) == IF Truthy(t) THEN fix_toc_item(t, 0).item ELSE t

(***************************************************************************)
(* Calls of _fix_toc_uids on navigation structures built from links and    *)
(* from sections with a list of links.                                     *)
(***************************************************************************)
MaxToc == 2        \* items in a list of the navigation structure

Links == {Link(UidNone), Link(Uid("")), Link(Uid("a"))}

RECURSIVE SeqsOf(_, _)
SeqsOf(S, n) ==
    IF n = 0 THEN { <<>> }
    ELSE SeqsOf(S, n - 1)
         \cup {Append(q, x) : q \in {r \in SeqsOf(S, n - 1) : Len(r) = n - 1},
                              x \in S}

TocEntries ==
    Links \cup {Tuple(<<Section, List(l)>>) : l \in SeqsOf(Links, MaxToc) \ {<<>>}}

\* the caller puts one more entry into book.toc, or makes it a single link
TocAddItem ==
    /\ tpc = "build"
    /\ \/ /\ toc.kind = "list" /\ Len(toc.items) < MaxToc
          /\ \E e \in TocEntries : toc' = List(Append(toc.items, e))
       \/ /\ toc = List(<<>>)
          /\ \E l \in Links : toc' = l
    /\ UNCHANGED <<pipevars, style, fixed_style, css_text, fixed_css, tpc,
                   againvars, fixed_toc>>

TocCall ==
    /\ tpc = "build"
    /\ fixed_toc' = _fix_toc_uids(toc)
    /\ tpc' = "done"
    /\ UNCHANGED <<pipevars, style, fixed_style, css_text, fixed_css,
                   againvars, toc>>

NextToc == TocAddItem \/ TocCall

SpecToc == InitText /\ [][NextToc]_vars

(***************************************************************************)
(* Properties of _fix_toc_uids.                                            *)
(***************************************************************************)
\* the leaves of a navigation structure that have an identifier field,
\* in document order
RECURSIVE LeavesOf(_), LeavesIn(_)
LeavesOf(item) ==
    IF item.kind \in {"tuple", "list"} THEN LeavesIn(item.items)
    ELSE IF item.kind = "Link" THEN << item >> ELSE <<>>
LeavesIn(items) ==
    IF items = <<>> THEN <<>>
    ELSE LeavesOf(Head(items)) \o LeavesIn(Tail(items))
Unset(uid) == uid = UidNone \/ uid = Uid("")

\* C14, as the specification states it: after the repair every leaf has a
\* non-empty identifier, no two leaves share one, a leaf that had a
\* non-empty identifier keeps it and a leaf whose identifier was empty or
\* unset has a fresh one.
C14_AllLeavesIdentified ==
    tpc = "done" =>
        LET before == LeavesOf(toc)
            after == LeavesOf(fixed_toc)
        IN  /\ Len(after) = Len(before)
            /\ \A i \in 1..Len(after) :
                  /\ ~Unset(after[i].uid)
                  /\ ~Unset(before[i].uid) => after[i].uid = before[i].uid
                  /\ Unset(before[i].uid) => after[i].uid.v = "uuid4"
            /\ \A i, j \in 1..Len(after) :
                  i # j => after[i].uid # after[j].uid

(***************************************************************************)
(* cli.py, main: one run of the command line.                              *)
(***************************************************************************)
MaxFiles == 2      \* input files on the command line

CliFiles == {PA, PMissing, PJunk}
CliOutputs == {None, Path("out", "fixed.epub")}
CliDirs == {NoDir, "out", "ro"}

\* os.path.exists
exists(p) == fs[p].k # "missing"

\* line 63: parser.parse_args(); argparse wants one file at least
ParseArgs ==
    /\ cpc = "off" /\ TopIdle
    /\ \E files \in SeqsOf(CliFiles, MaxFiles) \ { <<>> },
          output \in CliOutputs, dir \in CliDirs, overwrite \in BOOLEAN :
          args' = [files |-> files, output |-> output, output_dir |-> dir,
                   overwrite |-> overwrite]
    /\ cpc' = "validate"
    /\ UNCHANGED <<fs, processed_files, total_files, callvars, pc, temp_dir,
                   book, in_entries, retval, exc, escaped, caller, batchvars,
                   fix_calls, ops, textvars, exit_code>>

\* lines 66-72: the two tests that reject a command line
Rejected(a) ==
    \/ Len(a.files) > 1 /\ a.output # None
    \/ ~a.overwrite /\ a.output = None /\ a.output_dir = NoDir

Validate ==
    /\ cpc = "validate"
    /\ IF Rejected(args) THEN cpc' = "exited" /\ exit_code' = <<1>>
       ELSE cpc' = "dispatch" /\ exit_code' = exit_code
    /\ UNCHANGED <<fs, processed_files, total_files, callvars, pc, temp_dir,
                   book, in_entries, retval, exc, escaped, caller, batchvars,
                   fix_calls, ops, textvars, args>>

\* lines 86-92
output_file(a) ==
    IF a.output # None THEN a.output
    ELSE IF a.output_dir # NoDir
    THEN join(a.output_dir, basename(a.files[1]))
    ELSE None

\* lines 78-98: one file; it is given to fix_epub if it exists
CliSingle ==
    /\ cpc = "dispatch" /\ Len(args.files) = 1
    /\ IF ~exists(args.files[1])
       THEN /\ cpc' = "exited" /\ exit_code' = <<1>>
            /\ UNCHANGED <<fs, processed_files, total_files, callvars, pc,
                           temp_dir, book, in_entries, retval, exc, escaped,
                           caller, fix_calls>>
       ELSE /\ CallFix(args.files[1], output_file(args))
            /\ fix_calls' = << Call(args.files[1], "cli") >>
            /\ caller' = "cli"
            /\ cpc' = "single" /\ exit_code' = exit_code
    /\ UNCHANGED <<batchvars, ops, textvars, args>>

\* lines 100-105
CliSingleExit ==
    /\ cpc = "single" /\ pc = "returned"
    /\ exit_code' = IF retval = "True" THEN <<0>> ELSE <<1>>
    /\ cpc' = "exited"
    /\ caller' = "none"
    /\ UNCHANGED <<fs, processed_files, total_files, callvars, pc, temp_dir,
                   book, in_entries, retval, exc, escaped, batchvars,
                   fix_calls, ops, textvars, args>>

\* lines 112-117: the files that exist, in order
valid_files(files) == SelectSeq(files, exists)

\* lines 107-127: several files; the ones that exist are given to batch_fix
CliBatch ==
    /\ cpc = "dispatch" /\ Len(args.files) > 1
    /\ IF valid_files(args.files) = <<>>
       THEN /\ cpc' = "exited" /\ exit_code' = <<1>>
            /\ UNCHANGED <<fs, processed_files, total_files, callvars, pc,
                           temp_dir, book, in_entries, retval, exc, escaped,
                           caller, batchvars, fix_calls>>
       ELSE /\ BatchEnter(valid_files(args.files), args.output_dir)
            /\ cpc' = "batch" /\ exit_code' = exit_code
    /\ UNCHANGED <<ops, textvars, args>>

\* line 143
CliBatchExit ==
    /\ cpc = "batch" /\ caller = "none" /\ batch_result # NoResult
    /\ exit_code' = IF batch_result.failed = 0 THEN <<0>> ELSE <<1>>
    /\ cpc' = "exited"
    /\ UNCHANGED <<fs, processed_files, total_files, callvars, pc, temp_dir,
                   book, in_entries, retval, exc, escaped, caller, batchvars,
                   fix_calls, ops, textvars, args>>

CliStep ==
    \/ ParseArgs \/ Validate \/ CliSingle \/ CliSingleExit \/ CliBatch
    \/ CliBatchExit

NextCli == CliStep \/ BatchFix \/ BatchCollect \/ BatchReturn \/ FixStep

SpecCli == InitWith(BatchPackages) /\ [][NextCli]_vars

(***************************************************************************)
(* Properties of the command line.                                         *)
(***************************************************************************)
\* how many of -o, -d and --overwrite the command line sets
NumSet(a) ==
    (IF a.output # None THEN 1 ELSE 0) + (IF a.output_dir # NoDir THEN 1 ELSE 0)
    + (IF a.overwrite THEN 1 ELSE 0)
\* no file was read or written
Untouched ==
    /\ fix_calls = <<>> /\ in_entries = <<>> /\ pc = "idle"
    /\ \A p \in Paths : p \notin InputPaths => fs[p] = Missing
Validated == cpc \notin {"off", "validate"}

\* C15: a command line that does not set exactly one of -o, -d and
\* --overwrite, or that gives -o with several inputs, ends with exit code
\* 1 before any file is read or written.
C15_RejectsInvalid ==
    (Validated /\ (NumSet(args) # 1
                   \/ (args.output # None /\ Len(args.files) > 1))) =>
        exit_code = <<1>> /\ Untouched

\* C16: the command line exits with 0 exactly when every input path it
\* was given went through fix_epub with result True, and with 1 otherwise
\* (a failed or missing input, a rejected command line).
AllFixed ==
    \A i \in 1..Len(args.files) :
        \E k \in 1..Len(fix_calls) :
            fix_calls[k].path = args.files[i] /\ fix_calls[k].ret = "True"
C16_ExitCode ==
    cpc = "exited" =>
        /\ exit_code \in {<<0>>, <<1>>}
        /\ exit_code = <<0>> <=> (~Rejected(args) /\ AllFixed)

(***************************************************************************)
(* gui.py: the window.  The main thread runs the event loop: it dispatches *)
(* the clicks on the enabled buttons and runs the callbacks scheduled with *)
(* root.after(0, ...), one at a time.  A click that is already in the      *)
(* event queue is dispatched before a callback scheduled later, so the     *)
(* loop may take either first.  Each start launches a thread that runs     *)
(* _process_files; its call into the fixer is the pipeline modelled above  *)
(* and contributes here the callbacks scheduled around it.                 *)
(***************************************************************************)
MaxStarts == 2     \* threads started in a behaviour

nongui == <<fs, processed_files, total_files, callvars, pc, temp_dir, book,
            in_entries, retval, exc, escaped, caller, batchvars, fix_calls,
            ops, style, fixed_style, css_text, fixed_css, tpc, againvars,
            tocvars, progress, clivars>>

\* the selections of the model: none, one file, two files
Selections == { <<>>, << PA >>, << PA, PB >> }

\* lines 303-309, 311-316, 318-330: each schedules a callback and returns
_update_progress(q) == Append(q, "progress")
_show_result(q) == Append(q, "show")
_set_controls_enabled(q, enabled) ==
    Append(q, IF enabled THEN "enable" ELSE "disable")

\* lines 192-217: the three selection buttons; a disabled button does nothing
GuiSelect ==
    /\ controls = "normal"
    /\ \E f \in Selections : selected_files' = f
    /\ UNCHANGED <<nongui, dest_set, controls, after_queue, threads>>

\* lines 94-117: the output entry can be edited at any time
GuiDestination ==
    /\ \E d \in BOOLEAN : dest_set' = d
    /\ UNCHANGED <<nongui, selected_files, controls, after_queue, threads>>

\* lines 242-258: the command of start_btn
_start_processing ==
    /\ controls = "normal"
    /\ Len(threads) < MaxStarts
    /\ IF selected_files = <<>> \/ ~dest_set
       THEN UNCHANGED <<after_queue, threads>>           \* a warning is shown
       ELSE /\ after_queue' = _set_controls_enabled(after_queue, FALSE)
            /\ threads' = Append(threads, "begin")
    /\ UNCHANGED <<nongui, selected_files, dest_set, controls>>

\* lines 262-267: the thread reads the options and resets the progress bar;
\* a call into Tk from the thread may raise
GuiBegin(w) ==
    /\ threads[w] = "begin"
    /\ \E to \in {"fix", "except"} : threads' = [threads EXCEPT ![w] = to]
    /\ UNCHANGED <<nongui, selected_files, dest_set, controls, after_queue>>

\* lines 269-296: fix_epub for one selected file, batch_fix otherwise, with
\* the progress and result callbacks around the call
GuiFix(w) ==
    /\ threads[w] = "fix"
    /\ \/ /\ after_queue' =
               IF Len(selected_files) = 1
               THEN _show_result(_update_progress(_update_progress(after_queue)))
               ELSE _show_result(_update_progress(after_queue))
          /\ threads' = [threads EXCEPT ![w] = "finally"]
       \/ /\ after_queue' = after_queue
          /\ threads' = [threads EXCEPT ![w] = "except"]
    /\ UNCHANGED <<nongui, selected_files, dest_set, controls>>

\* lines 297-298
GuiExcept(w) ==
    /\ threads[w] = "except"
    /\ after_queue' = _show_result(after_queue)
    /\ threads' = [threads EXCEPT ![w] = "finally"]
    /\ UNCHANGED <<nongui, selected_files, dest_set, controls>>

\* lines 299-301: the thread ends
GuiFinally(w) ==
    /\ threads[w] = "finally"
    /\ after_queue' = _set_controls_enabled(after_queue, TRUE)
    /\ threads' = [threads EXCEPT ![w] = "done"]
    /\ UNCHANGED <<nongui, selected_files, dest_set, controls>>

_process_files ==
    \E w \in 1..Len(threads) :
        GuiBegin(w) \/ GuiFix(w) \/ GuiExcept(w) \/ GuiFinally(w)

\* the event loop runs the oldest scheduled callback (lines 305-307,
\* 313-314, 320-328)
GuiAfter ==
    /\ after_queue # <<>>
    /\ after_queue' = Tail(after_queue)
    /\ controls' = CASE Head(after_queue) = "disable" -> "disabled"
                     [] Head(after_queue) = "enable" -> "normal"
                     [] OTHER -> controls
    /\ UNCHANGED <<nongui, selected_files, dest_set, threads>>

NextGui ==
    GuiSelect \/ GuiDestination \/ _start_processing \/ _process_files
    \/ GuiAfter

SpecGui == InitWith(BatchPackages) /\ [][NextGui]_vars

\* the event loop and the threads keep running
SpecGuiFair == SpecGui /\ WF_vars(GuiAfter) /\ WF_vars(_process_files)

\* the threads that have not finished
Running == Len(SelectSeq(threads, LAMBDA t : t # "done"))

\* C23: at most one worker thread runs at any time: from the start that
\* launches a thread until that thread has finished, no second start
\* launches another.
C23_AtMostOneWorker == Running <= 1

\* once a thread runs, the window comes back to no thread running and the
\* controls enabled
ControlsReenabled == (Running > 0) ~> (Running = 0 /\ controls = "normal")

====
